---- MODULE Spec2Model ----
(***************************************************************************)
(* Virtual try-on application.                                             *)
(*                                                                         *)
(*   ProxySpec   the two HTTP proxy handlers (src/unnamed/part_000) and    *)
(*               the process-wide Bottleneck limiter they share            *)
(*   ClientSpec  the response extraction of performVirtualTryOn and        *)
(*               refineImage (src/services/geminiService.ts)               *)
(*   UISpec      the App component: its seven state fields, its event      *)
(*               handlers and the generation calls they leave pending      *)
(*                                                                         *)
(* Time is counted in whole seconds (minTime 6000 ms = 6).                 *)
(***************************************************************************)
EXTENDS Integers, Sequences, FiniteSets, TLC

VARIABLES
    \* ---- proxy process -------------------------------------------------
    env,        \* process.env: which of GEMINI_API_URL / GEMINI_API_KEY are set
    now,        \* wall clock, seconds
    arrived,    \* number of requests received so far
    pc,         \* per request: position of its handler invocation
    req,        \* per request: method and handler variant
    up,         \* per request: the upstream response (externalResp)
    res,        \* per request: the response written to the caller
    hist,       \* per request: what the invocation did (env reads, fetches, ...)
    limiter,    \* the Bottleneck instance: queue, running, nextRequest
    \* ---- generation client -------------------------------------------
    response,   \* the provider response handed to the extraction loop
    returned,   \* what performVirtualTryOn / refineImage returned for it
    \* ---- App component --------------------------------------------------
    personImage, clothingImage, resultImage, isLoading, isRefining, error,
    refinePrompt,   \* the seven useState fields
    apiKey,     \* whether process.env.API_KEY is set in the bundle
    reads,      \* FileReader reads started by handleImageUpload, not yet ended
    calls,      \* per await point, the handler activations suspended there
    latest      \* the operation accepted most recently (history of the triggers)

proxyVars == <<env, now, arrived, pc, req, up, res, hist, limiter>>
clientVars == <<response, returned>>
appState == <<personImage, clothingImage, resultImage, isLoading, isRefining, error,
              refinePrompt>>
uiVars == <<appState, apiKey, reads, calls, latest>>

\* what the proxy process, the client and the App each leave alone
notProxy == <<clientVars, uiVars>>
notClient == <<proxyVars, uiVars>>
notUI == <<proxyVars, clientVars>>

vars == <<proxyVars, clientVars, uiVars>>

(***************************************************************************)
(* Bounds                                                                  *)
(***************************************************************************)
NumReq == 2        \* requests per behaviour of ProxySpec
NumRelay == 1      \* requests per behaviour of RelaySpec
MaxParts == 4      \* content parts in a candidate
MaxPending == 3    \* handler activations of the App suspended at an await
MaxReads == 1      \* upload reads in progress
MaxIdle == 1       \* seconds the clock may run on past the limiter's nextRequest

Null == "null"

(***************************************************************************)
(* Generation client: the provider response and its extraction             *)
(***************************************************************************)
\* an optional field: <<>> when absent, <<v>> when present
None == <<>>
Some(v) == <<v>>

\* a content part: optional inlineData { data } and optional text
Part(i, t) == [inlineData |-> i, text |-> t]

\* the parts a candidate may hold: two images, two texts, an empty text, a part
\* carrying both an image and a text, and a part carrying neither
PartKinds ==
    { Part(Some([data |-> "imgA"]), None), Part(Some([data |-> "imgB"]), None),
      Part(None, Some("txtA")), Part(None, Some("txtB")), Part(None, Some("")),
      Part(Some([data |-> "imgC"]), Some("txtC")), Part(None, None) }

RECURSIVE SeqsUpTo(_, _)
SeqsUpTo(S, n) ==
    IF n = 0 THEN {<<>>}
    ELSE LET shorter == SeqsUpTo(S, n - 1) IN
         shorter \cup {Append(q, x) : q \in {t \in shorter : Len(t) = n - 1}, x \in S}

\* candidates[i].content.parts
Candidates == SeqsUpTo(PartKinds, MaxParts)
OtherCandidate == <<Part(Some([data |-> "imgZ"]), Some("txtZ"))>>

\* response.candidates: absent, empty, one candidate, or two
Responses ==
    {[candidates |-> None], [candidates |-> Some(<<>>)]}
    \cup {[candidates |-> Some(<<c>>)] : c \in Candidates}
    \cup {[candidates |-> Some(<<c, OtherCandidate>>)] : c \in Candidates}

\* the result object { imageBase64, text }
Result(i, t) == [imageBase64 |-> i, text |-> t]

\* mutant: the loop keeps the first image and the first text it meets
RECURSIVE TryOnLoop_KeepFirst(_, _, _)
TryOnLoop_KeepFirst(parts, imageBase64, text) ==
    IF parts = <<>> THEN Result(imageBase64, text)
    ELSE LET part == Head(parts) IN
         IF part.inlineData # None
         THEN TryOnLoop_KeepFirst(Tail(parts),
                  IF imageBase64 = Null THEN part.inlineData[1].data ELSE imageBase64,
                  text)
         ELSE IF part.text # None /\ part.text[1] # ""
              THEN TryOnLoop_KeepFirst(Tail(parts), imageBase64,
                       IF text = Null THEN part.text[1] ELSE text)
              ELSE TryOnLoop_KeepFirst(Tail(parts), imageBase64, text)

\* performVirtualTryOn: `for (const part of parts)` with imageBase64 and text so far
RECURSIVE TryOnLoop(_, _, _)
TryOnLoop(parts, imageBase64, text) ==
    IF parts = <<>> THEN Result(imageBase64, text)
    ELSE LET part == Head(parts) IN
         IF part.inlineData # None
         THEN TryOnLoop(Tail(parts), part.inlineData[1].data, text)
         ELSE IF part.text # None /\ part.text[1] # ""
              THEN TryOnLoop(Tail(parts), imageBase64, part.text[1])
              ELSE TryOnLoop(Tail(parts), imageBase64, text)

\* performVirtualTryOn, from the response to the returned object
PerformVirtualTryOnResult(rsp) ==
    IF rsp.candidates # None /\ Len(rsp.candidates[1]) > 0
    THEN TryOnLoop(rsp.candidates[1][1], Null, Null)
    ELSE Result(Null, Null)

\* mutant: the loop stops at the first part it can use
RefineLoop_StopsAtFirst(parts, newImageBase64, text) ==
    IF parts = <<>> THEN Result(newImageBase64, text)
    ELSE LET part == Head(parts) IN
         IF part.inlineData # None
         THEN Result(part.inlineData[1].data, text)
         ELSE IF part.text # None /\ part.text[1] # ""
              THEN Result(newImageBase64, part.text[1])
              ELSE Result(newImageBase64, text)

\* refineImage: `for (const part of parts)` with newImageBase64 and text so far
RECURSIVE RefineLoop(_, _, _)
RefineLoop(parts, newImageBase64, text) ==
    IF parts = <<>> THEN Result(newImageBase64, text)
    ELSE LET part == Head(parts) IN
         IF part.inlineData # None
         THEN RefineLoop(Tail(parts), part.inlineData[1].data, text)
         ELSE IF part.text # None /\ part.text[1] # ""
              THEN RefineLoop(Tail(parts), newImageBase64, part.text[1])
              ELSE RefineLoop(Tail(parts), newImageBase64, text)

\* refineImage, from the response to the returned object
RefineImageResult(rsp) ==
    IF rsp.candidates # None /\ Len(rsp.candidates[1]) > 0
    THEN RefineLoop(rsp.candidates[1][1], Null, Null)
    ELSE Result(Null, Null)

NotReturned == [by |-> "none", imageBase64 |-> Null, text |-> Null]

\* the client outside ClientSpec: no response at hand
ClientIdle ==
    /\ response = [candidates |-> None]
    /\ returned = NotReturned

\* a response arrives from the provider
ClientStart ==
    /\ response \in Responses
    /\ returned = NotReturned

\* performVirtualTryOn returns for the response at hand
TryOnReturns ==
    /\ returned.by = "none"
    /\ LET r == PerformVirtualTryOnResult(response) IN
       returned' = [by |-> "performVirtualTryOn",
                    imageBase64 |-> r.imageBase64, text |-> r.text]
    /\ UNCHANGED <<response, notClient>>

\* refineImage returns for the response at hand
RefineReturns ==
    /\ returned.by = "none"
    /\ LET r == RefineImageResult(response) IN
       returned' = [by |-> "refineImage",
                    imageBase64 |-> r.imageBase64, text |-> r.text]
    /\ UNCHANGED <<response, notClient>>

(***************************************************************************)
(* App component: values                                                   *)
(***************************************************************************)
Files == {"photo", "dress"}
Slots == {"person", "clothing"}

\* FileReader.readAsDataURL(file): "data:<type>;base64,<payload>", kept as the
\* two fields a split on ',' gives
ReadAsDataURL(file) == <<"data:image/jpeg;base64", file>>
\* `data:image/png;base64,${imageBase64}`
PngDataUrl(imageBase64) == <<"data:image/png;base64", imageBase64>>

\* { preview, file }
ImageStateOf(file) == [preview |-> ReadAsDataURL(file), file |-> file]

\* the refinement prompt is a string of characters
Prompts == {<<>>, <<" ">>, <<"r", " ">>}
IsSpace(c) == c = " "
RECURSIVE TrimStart(_)
TrimStart(str) ==
    IF str # <<>> /\ IsSpace(Head(str)) THEN TrimStart(Tail(str)) ELSE str
RECURSIVE TrimEnd(_)
TrimEnd(str) ==
    IF str # <<>> /\ IsSpace(str[Len(str)])
    THEN TrimEnd(SubSeq(str, 1, Len(str) - 1)) ELSE str
\* refinePrompt.trim()
Trim(str) == TrimEnd(TrimStart(str))

\* the provider responses the App's calls may resolve with
AppResponses ==
    { [candidates |-> None],
      [candidates |-> Some(<<<<Part(None, Some("txtA"))>>>>)],
      [candidates |-> Some(<<<<Part(Some([data |-> "imgA"]), None)>>>>)],
      [candidates |-> Some(<<<<Part(Some([data |-> "imgA"]), None),
                             Part(Some([data |-> "imgB"]), None)>>>>)] }

UploadBothMessage == "Please upload both a person and a clothing image."
CannotRefineMessage == "Cannot refine without a result image and a prompt."
ApiKeyMessage == "API_KEY environment variable is not set."
NoImageMessage == "The AI model did not return an image. Please try again with different images."
NoRefinedMessage == "The AI model did not return a refined image."
UnknownMessage == "An unknown error occurred."
NetworkMessage == "Failed to fetch"
\* `Failed to generate image: ${errorMessage}`
GenerateError(errorMessage) == "Failed to generate image: " \o errorMessage
\* `Failed to refine image: ${errorMessage}`
RefineError(errorMessage) == "Failed to refine image: " \o errorMessage

\* `if (result.imageBase64)`: null and '' are falsy
Truthy(str) == str # Null /\ str # ""

\* the await points a handler activation can be suspended at
Awaits == {"toBase64Person", "toBase64Clothing", "performVirtualTryOn", "refineImage"}
Pending == calls["toBase64Person"] + calls["toBase64Clothing"]
              + calls["performVirtualTryOn"] + calls["refineImage"]
Suspend(c, a) == [c EXCEPT ![a] = @ + 1]
Resume(c, a) == [c EXCEPT ![a] = @ - 1]

(***************************************************************************)
(* App component: what is rendered                                         *)
(***************************************************************************)
\* useMemo(() => !personImage || !clothingImage || isLoading)
isButtonDisabled == personImage = None \/ clothingImage = None \/ isLoading
\* {resultImage && !isLoading && ( ...result, prompt, Refine, Download, Start Over )}
ResultShown == resultImage # None /\ ~isLoading
\* disabled={isRefining || !refinePrompt.trim()}
RefineDisabled == isRefining \/ Trim(refinePrompt) = <<>>

(***************************************************************************)
(* App component: the state updates of each handler segment                *)
(***************************************************************************)
\* mutant: the guard looks at the person image only
TryOnEntry_PersonOnly(person, clothing, rImg, loading, err) ==
    IF person = None
    THEN [accepted |-> FALSE, resultImage |-> rImg, isLoading |-> loading,
          error |-> UploadBothMessage]
    ELSE [accepted |-> TRUE, resultImage |-> None, isLoading |-> TRUE, error |-> Null]

\* handleVirtualTryOn up to its first await, given the two image states:
\* the guard, else setIsLoading(true); setError(null); setResultImage(null)
TryOnEntry(person, clothing, rImg, loading, err) ==
    IF person = None \/ clothing = None
    THEN [accepted |-> FALSE, resultImage |-> rImg, isLoading |-> loading,
          error |-> UploadBothMessage]
    ELSE [accepted |-> TRUE, resultImage |-> None, isLoading |-> TRUE, error |-> Null]

\* mutant: a result without an image is not treated as a failure
TryOnResolved_NoThrow(result, rImg, err) ==
    IF Truthy(result.imageBase64)
    THEN [resultImage |-> Some(PngDataUrl(result.imageBase64)), error |-> err,
          isLoading |-> FALSE]
    ELSE [resultImage |-> rImg, error |-> err, isLoading |-> FALSE]

\* handleVirtualTryOn once performVirtualTryOn has resolved with result
TryOnResolved(result, rImg, err) ==
    IF Truthy(result.imageBase64)
    THEN [resultImage |-> Some(PngDataUrl(result.imageBase64)), error |-> err,
          isLoading |-> FALSE]
    ELSE [resultImage |-> rImg, error |-> GenerateError(NoImageMessage),
          isLoading |-> FALSE]

\* mutant: the rejection is reported but the finally block is skipped
TryOnRejected_KeepsLoading(errorMessage, rImg) ==
    [resultImage |-> rImg, error |-> GenerateError(errorMessage), isLoading |-> TRUE]

\* handleVirtualTryOn's catch and finally, for a rejection with errorMessage
TryOnRejected(errorMessage, rImg) ==
    [resultImage |-> rImg, error |-> GenerateError(errorMessage), isLoading |-> FALSE]

\* mutant: the prompt is cleared whether an image came back or not
RefineResolved_ClearsPrompt(result, rImg, prompt, err) ==
    IF Truthy(result.imageBase64)
    THEN [resultImage |-> Some(PngDataUrl(result.imageBase64)), refinePrompt |-> <<>>,
          error |-> err, isRefining |-> FALSE]
    ELSE [resultImage |-> rImg, refinePrompt |-> <<>>,
          error |-> RefineError(NoRefinedMessage), isRefining |-> FALSE]

\* handleRefine once refineImage has resolved with result
RefineResolved(result, rImg, prompt, err) ==
    IF Truthy(result.imageBase64)
    THEN [resultImage |-> Some(PngDataUrl(result.imageBase64)), refinePrompt |-> <<>>,
          error |-> err, isRefining |-> FALSE]
    ELSE [resultImage |-> rImg, refinePrompt |-> prompt,
          error |-> RefineError(NoRefinedMessage), isRefining |-> FALSE]

\* handleRefine's catch and finally, for a rejection with errorMessage
RefineRejected(errorMessage) ==
    [error |-> RefineError(errorMessage), isRefining |-> FALSE]

(***************************************************************************)
(* App component: initial state and actions                                *)
(***************************************************************************)
\* the useState initial values; nothing is being read or awaited
AppStart ==
    /\ personImage = None
    /\ clothingImage = None
    /\ resultImage = None
    /\ isLoading = FALSE
    /\ isRefining = FALSE
    /\ error = Null
    /\ refinePrompt = <<>>
    /\ reads = {}
    /\ calls = [a \in Awaits |-> 0]
    /\ latest = "mount"

\* outside UISpec the App is not used
AppIdle == AppStart /\ apiKey = TRUE

\* handleImageUpload: a FileReader starts reading the chosen file
UploadStarts(slot, file) ==
    /\ Cardinality(reads) < MaxReads
    /\ <<slot, file>> \notin reads
    /\ reads' = reads \cup {<<slot, file>>}
    /\ UNCHANGED <<appState, apiKey, latest, calls, notUI>>

\* reader.onloadend with a string result: setPersonImage / setClothingImage
UploadEnds(slot, file) ==
    /\ <<slot, file>> \in reads
    /\ reads' = reads \ {<<slot, file>>}
    /\ IF slot = "person"
       THEN personImage' = Some(ImageStateOf(file)) /\ UNCHANGED clothingImage
       ELSE clothingImage' = Some(ImageStateOf(file)) /\ UNCHANGED personImage
    /\ UNCHANGED <<resultImage, isLoading, isRefining, error, refinePrompt,
                   apiKey, latest, calls, notUI>>

\* reader.onloadend after a failed read: the result is no string, nothing is set
UploadFails(slot, file) ==
    /\ <<slot, file>> \in reads
    /\ reads' = reads \ {<<slot, file>>}
    /\ UNCHANGED <<appState, apiKey, latest, calls, notUI>>

\* handleVirtualTryOn is invoked and runs up to its first await
handleVirtualTryOn ==
    /\ Pending < MaxPending
    /\ LET entry == TryOnEntry(personImage, clothingImage, resultImage, isLoading, error)
       IN /\ resultImage' = entry.resultImage
          /\ isLoading' = entry.isLoading
          /\ error' = entry.error
          /\ calls' = IF entry.accepted THEN Suspend(calls, "toBase64Person") ELSE calls
          /\ latest' = IF entry.accepted THEN "generate" ELSE latest
    /\ UNCHANGED <<personImage, clothingImage, isRefining, refinePrompt, apiKey,
                   reads, notUI>>

\* the Virtual Try-On button is clicked: onClick={handleVirtualTryOn} of a button
\* that is not disabled
ClickGenerate ==
    /\ ~isButtonDisabled
    /\ handleVirtualTryOn

\* toBase64(personImage.file) resolves; toBase64(clothingImage.file) is awaited
PersonFileRead ==
    /\ calls["toBase64Person"] > 0
    /\ calls' = Suspend(Resume(calls, "toBase64Person"), "toBase64Clothing")
    /\ UNCHANGED <<appState, apiKey, latest, reads, notUI>>

\* toBase64(clothingImage.file) resolves and performVirtualTryOn is called: it
\* throws at once when API_KEY is unset, else its generateContent call is awaited
ClothingFileRead ==
    /\ calls["toBase64Clothing"] > 0
    /\ IF apiKey
       THEN /\ calls' = Suspend(Resume(calls, "toBase64Clothing"), "performVirtualTryOn")
            /\ UNCHANGED <<resultImage, error, isLoading>>
       ELSE LET after == TryOnRejected(ApiKeyMessage, resultImage) IN
            /\ calls' = Resume(calls, "toBase64Clothing")
            /\ resultImage' = after.resultImage
            /\ error' = after.error
            /\ isLoading' = after.isLoading
    /\ UNCHANGED <<personImage, clothingImage, isRefining, refinePrompt, apiKey, latest,
                   reads, notUI>>

\* one of the two toBase64 reads rejects with the reader's error event, which is
\* no Error instance
FileReadFails(a) ==
    /\ a \in {"toBase64Person", "toBase64Clothing"}
    /\ calls[a] > 0
    /\ calls' = Resume(calls, a)
    /\ LET after == TryOnRejected(UnknownMessage, resultImage) IN
       /\ resultImage' = after.resultImage
       /\ error' = after.error
       /\ isLoading' = after.isLoading
    /\ UNCHANGED <<personImage, clothingImage, isRefining, refinePrompt, apiKey, latest,
                   reads, notUI>>

\* performVirtualTryOn resolves with what it extracts from the response rsp
GenerateResolves(rsp) ==
    /\ calls["performVirtualTryOn"] > 0
    /\ calls' = Resume(calls, "performVirtualTryOn")
    /\ LET after == TryOnResolved(PerformVirtualTryOnResult(rsp), resultImage, error) IN
       /\ resultImage' = after.resultImage
       /\ error' = after.error
       /\ isLoading' = after.isLoading
    /\ UNCHANGED <<personImage, clothingImage, isRefining, refinePrompt, apiKey, latest,
                   reads, notUI>>

\* the generateContent call of performVirtualTryOn rejects
GenerateRejects ==
    /\ calls["performVirtualTryOn"] > 0
    /\ calls' = Resume(calls, "performVirtualTryOn")
    /\ LET after == TryOnRejected(NetworkMessage, resultImage) IN
       /\ resultImage' = after.resultImage
       /\ error' = after.error
       /\ isLoading' = after.isLoading
    /\ UNCHANGED <<personImage, clothingImage, isRefining, refinePrompt, apiKey, latest,
                   reads, notUI>>

\* the textarea is edited
SetRefinePrompt(text) ==
    /\ ResultShown
    /\ text # refinePrompt
    /\ refinePrompt' = text
    /\ UNCHANGED <<personImage, clothingImage, resultImage, isLoading, isRefining,
                   error, apiKey, latest, reads, calls, notUI>>

\* mutant: the guard compares the prompt without trimming it
handleRefine_NoTrim ==
    /\ Pending < MaxPending
    /\ IF resultImage = None \/ refinePrompt = <<>>
       THEN /\ error' = CannotRefineMessage
            /\ UNCHANGED <<isRefining, calls, latest>>
       ELSE /\ isRefining' = TRUE
            /\ error' = Null
            /\ latest' = "refine"
            /\ calls' = Suspend(calls, "refineImage")
    /\ UNCHANGED <<personImage, clothingImage, resultImage, isLoading, refinePrompt,
                   apiKey, reads, notUI>>

\* handleRefine is invoked and runs up to its await. With API_KEY unset
\* refineImage throws at once and the catch and finally run before any other
\* event.
handleRefine ==
    /\ Pending < MaxPending
    /\ IF resultImage = None \/ Trim(refinePrompt) = <<>>
       THEN /\ error' = CannotRefineMessage
            /\ UNCHANGED <<isRefining, calls, latest>>
       ELSE IF ~apiKey
       THEN LET after == RefineRejected(ApiKeyMessage) IN
            /\ error' = after.error
            /\ isRefining' = after.isRefining
            /\ latest' = "refine"
            /\ UNCHANGED calls
       ELSE /\ isRefining' = TRUE
            /\ error' = Null
            /\ latest' = "refine"
            /\ calls' = Suspend(calls, "refineImage")
    /\ UNCHANGED <<personImage, clothingImage, resultImage, isLoading, refinePrompt,
                   apiKey, reads, notUI>>

\* the Refine Image button is clicked: onClick={handleRefine} of a button that is
\* rendered and not disabled
ClickRefine ==
    /\ ResultShown
    /\ ~RefineDisabled
    /\ handleRefine

\* refineImage resolves with what it extracts from the response rsp
RefineResolves(rsp) ==
    /\ calls["refineImage"] > 0
    /\ calls' = Resume(calls, "refineImage")
    /\ LET after == RefineResolved(RefineImageResult(rsp), resultImage, refinePrompt,
                                   error) IN
       /\ resultImage' = after.resultImage
       /\ refinePrompt' = after.refinePrompt
       /\ error' = after.error
       /\ isRefining' = after.isRefining
    /\ UNCHANGED <<personImage, clothingImage, isLoading, apiKey, latest, reads, notUI>>

\* the generateContent call of refineImage rejects
RefineRejects ==
    /\ calls["refineImage"] > 0
    /\ calls' = Resume(calls, "refineImage")
    /\ LET after == RefineRejected(NetworkMessage) IN
       /\ error' = after.error
       /\ isRefining' = after.isRefining
    /\ UNCHANGED <<personImage, clothingImage, resultImage, isLoading, refinePrompt,
                   apiKey, latest, reads, notUI>>

\* the Download Image button is clicked: a file save, no state change
Download ==
    /\ ResultShown
    /\ UNCHANGED vars

\* mutant: Start over forgets setIsRefining(false)
StartOverSets_KeepsRefining ==
    /\ personImage' = None
    /\ clothingImage' = None
    /\ resultImage' = None
    /\ error' = Null
    /\ refinePrompt' = <<>>
    /\ isLoading' = FALSE
    /\ UNCHANGED isRefining

\* the seven setters of handleStartOver
StartOverSets ==
    /\ personImage' = None
    /\ clothingImage' = None
    /\ resultImage' = None
    /\ error' = Null
    /\ refinePrompt' = <<>>
    /\ isLoading' = FALSE
    /\ isRefining' = FALSE

\* handleStartOver is invoked; reads and calls in progress are left running
handleStartOver ==
    /\ StartOverSets
    /\ latest' = "startOver"
    /\ UNCHANGED <<apiKey, reads, calls, notUI>>

\* the Start Over button is clicked: onClick={handleStartOver} of a rendered button
StartOver ==
    /\ ResultShown
    /\ handleStartOver

\* process.env.API_KEY is set or unset between two calls (a test environment)
SetApiKey ==
    /\ apiKey' = ~apiKey
    /\ UNCHANGED <<appState, reads, calls, latest, notUI>>

(***************************************************************************)
(* Proxy: constants of the code                                            *)
(***************************************************************************)
maxConcurrent == 1
minTime == 6

Methods == {"POST", "GET"}
Variants == {"plain", "limited"}
Requests == 1..NumReq

\* statuses the upstream may answer with
Statuses == {200, 429, 503}
\* value of externalResp.headers.get('content-type'): null when the header is absent
ContentTypes == {Null, "", "image/png"}
\* response bodies, as byte sequences (0xC3 alone is not valid UTF-8)
Bodies == {<<123, 125>>, <<195>>}

QuotaMessage == "Quota exceeded. Please wait and try again later, or upgrade your Google Cloud billing plan."
MissingEnvMessage == "Missing GEMINI_API_URL or GEMINI_API_KEY"
BodyUsedMessage == "Body is unusable: Body has already been read"
FetchFailedMessage == "fetch failed"
TerminatedMessage == "terminated"

\* a JSON "details" value: absent, an Error's message, or decoded response text
NoDetails == [tag |-> "absent", str |-> "", text |-> <<>>]
Message(m) == [tag |-> "message", str |-> m, text |-> <<>>]
Text(cps) == [tag |-> "text", str |-> "", text |-> cps]

NoResponse ==
    [sent |-> 0, status |-> 0, allow |-> Null, contentType |-> Null,
     kind |-> "none", error |-> Null, details |-> NoDetails, bytes |-> <<>>]

NoUpstream ==
    [status |-> 0, contentType |-> Null, body |-> <<>>, bodyUsed |-> FALSE,
     delivered |-> FALSE]

NoHist ==
    [envReads |-> 0, configured |-> FALSE, scheduled |-> 0, fetches |-> 0,
     execAt |-> -1, startedAt |-> -1]

Max(a, b) == IF a >= b THEN a ELSE b

(***************************************************************************)
(* Proxy: the response object (res.status / setHeader / end / json / send) *)
(***************************************************************************)
\* res.setHeader('Allow', 'POST'); res.status(405).end('Method Not Allowed')
MethodNotAllowed ==
    [sent |-> 1, status |-> 405, allow |-> "POST", contentType |-> Null,
     kind |-> "text", error |-> Null, details |-> NoDetails, bytes |-> <<>>]

\* res.status(s).json({ error, details })
Json(s, e, d) ==
    [sent |-> 1, status |-> s, allow |-> Null, contentType |-> "application/json",
     kind |-> "json", error |-> e, details |-> d, bytes |-> <<>>]

\* res.status(s); res.setHeader('Content-Type', ct); res.send(Buffer.from(buffer))
Send(s, ct, buffer) ==
    [sent |-> 1, status |-> s, allow |-> Null, contentType |-> ct,
     kind |-> "bytes", error |-> Null, details |-> NoDetails, bytes |-> buffer]

\* the catch block of both handlers
ServerError(message) == Json(500, "Server error", Message(message))

(***************************************************************************)
(* Proxy: the fetch Response                                               *)
(***************************************************************************)
\* TextDecoder('utf-8') over the body bytes, giving code points
RECURSIVE Utf8Decode(_)
Utf8Decode(bytes) ==
    IF bytes = <<>> THEN <<>>
    ELSE LET b == Head(bytes) IN
         IF b < 128 THEN <<b>> \o Utf8Decode(Tail(bytes))
         ELSE IF /\ b >= 194 /\ b <= 223 /\ Len(bytes) >= 2
                 /\ bytes[2] >= 128 /\ bytes[2] <= 191
              THEN <<(b - 192) * 64 + (bytes[2] - 128)>> \o Utf8Decode(Tail(Tail(bytes)))
              ELSE <<65533>> \o Utf8Decode(Tail(bytes))

\* externalResp.ok
IsOk(status) == status >= 200 /\ status <= 299

\* mutant: the upstream content type is not looked at
ContentTypeOf_AlwaysJson(u) == "application/json"

\* externalResp.headers.get('content-type') || 'application/json'
ContentTypeOf(u) ==
    IF u.contentType = Null \/ u.contentType = "" THEN "application/json"
    ELSE u.contentType

\* externalResp.arrayBuffer(): consumes the body
ArrayBuffer(u) == [u EXCEPT !.bodyUsed = TRUE, !.delivered = TRUE]

\* externalResp.text(): rejects with a TypeError once the body has been consumed
ReadText(u) ==
    IF u.bodyUsed THEN [ok |-> FALSE, text |-> <<>>, message |-> BodyUsedMessage]
    ELSE [ok |-> TRUE, text |-> Utf8Decode(u.body), message |-> ""]

(***************************************************************************)
(* Proxy: what each handler does once `await externalResp.arrayBuffer()`   *)
(* has given it the buffer; u is externalResp after that read              *)
(***************************************************************************)
\* first variant: relay status, content type and bytes whatever the status
PlainRelay(u) == Send(u.status, ContentTypeOf(u), u.body)

\* rate-limited variant: 429 branch, !ok branch, success branch, catch
LimitedRelay(u) ==
    IF u.status = 429 THEN
        LET errorText == ReadText(u) IN
        IF errorText.ok THEN Json(429, QuotaMessage, Text(errorText.text))
        ELSE ServerError(errorText.message)
    ELSE IF ~IsOk(u.status) THEN
        LET errorText == ReadText(u) IN
        IF errorText.ok THEN Json(u.status, "API error occurred", Text(errorText.text))
        ELSE ServerError(errorText.message)
    ELSE Send(u.status, ContentTypeOf(u), u.body)

Relay(variant, u) == IF variant = "limited" THEN LimitedRelay(u) ELSE PlainRelay(u)

(***************************************************************************)
(* Proxy: the limiter, new Bottleneck({ maxConcurrent: 1, minTime: 6000 }) *)
(***************************************************************************)
NewLimiter == [queue |-> <<>>, running |-> 0, nextRequest |-> 0]

\* mutant: a job submitted while the limiter is busy is dropped
Schedule_DropWhenBusy(l, r) ==
    IF l.running >= 1 \/ l.queue # <<>> THEN l ELSE [l EXCEPT !.queue = Append(@, r)]

\* limiter.schedule(job): the job joins the FIFO queue; nothing is ever refused
Schedule(l, r) == [l EXCEPT !.queue = Append(@, r)]

\* the limiter may take the head of the queue when a concurrency slot is free
CanRegister(l) == l.queue # <<>> /\ l.running + 1 <= maxConcurrent

\* how long a job registered at time t still waits before it is run
Wait(l, t) == Max(l.nextRequest - t, 0)

\* mutant: the next launch is not pushed back by minTime
Register_NoMinTime(l, t) ==
    [l EXCEPT !.queue = Tail(@),
              !.running = @ + 1,
              !.nextRequest = t + Wait(l, t)]

\* registering the head job at time t: one slot taken, next launch minTime later
Register(l, t) ==
    [l EXCEPT !.queue = Tail(@),
              !.running = @ + 1,
              !.nextRequest = t + Wait(l, t) + minTime]

\* the job's promise settled: its slot is free again
Free(l) == [l EXCEPT !.running = @ - 1]

(***************************************************************************)
(* Proxy: initial state                                                    *)
(***************************************************************************)
ProxyStart ==
    /\ env = [url |-> TRUE, key |-> TRUE]
    /\ now = 0
    /\ arrived = 0
    /\ pc = [r \in Requests |-> "none"]
    /\ req = [r \in Requests |-> [method |-> "POST", variant |-> "limited"]]
    /\ up = [r \in Requests |-> NoUpstream]
    /\ res = [r \in Requests |-> NoResponse]
    /\ hist = [r \in Requests |-> NoHist]
    /\ limiter = NewLimiter

ProxyInit == ProxyStart /\ ClientIdle /\ AppIdle

(***************************************************************************)
(* Proxy: actions                                                          *)
(***************************************************************************)
\* the deployment's environment is changed
SetEnv(u, k) ==
    /\ env # [url |-> u, key |-> k]
    /\ env' = [url |-> u, key |-> k]
    /\ UNCHANGED <<now, arrived, pc, req, up, res, hist, limiter, notProxy>>

\* mutant: the environment is read and checked before the method
Entry_EnvFirst(m, e) ==
    IF ~e.url \/ ~e.key THEN [reply |-> "500", envReads |-> 2, configured |-> FALSE]
    ELSE IF m # "POST" THEN [reply |-> "405", envReads |-> 2, configured |-> TRUE]
         ELSE [reply |-> "call", envReads |-> 2, configured |-> TRUE]

\* mutant: only GEMINI_API_URL is checked
Entry_UrlOnly(m, e) ==
    IF m # "POST" THEN [reply |-> "405", envReads |-> 0, configured |-> FALSE]
    ELSE IF ~e.url THEN [reply |-> "500", envReads |-> 2, configured |-> FALSE]
         ELSE [reply |-> "call", envReads |-> 2, configured |-> e.url /\ e.key]

\* handler(req, res) up to its first await, for method m under environment e:
\* the method check, then the two environment reads and their check;
\* configured says whether GEMINI_URL and GEMINI_KEY were both read as set
Entry(m, e) ==
    IF m # "POST" THEN [reply |-> "405", envReads |-> 0, configured |-> FALSE]
    ELSE IF ~e.url \/ ~e.key THEN [reply |-> "500", envReads |-> 2, configured |-> FALSE]
         ELSE [reply |-> "call", envReads |-> 2, configured |-> TRUE]

\* a request arrives and its handler runs to the first await: it answers 405 or
\* 500, or calls fetch (first variant) or limiter.schedule (rate-limited variant)
Receive(m, v) ==
    /\ arrived < NumReq
    /\ LET r == arrived + 1
           entry == Entry(m, env)
           read == [hist[r] EXCEPT !.envReads = entry.envReads,
                                   !.configured = entry.configured]
       IN
       /\ arrived' = r
       /\ req' = [req EXCEPT ![r] = [method |-> m, variant |-> v]]
       /\ IF entry.reply = "405" THEN
              /\ res' = [res EXCEPT ![r] = MethodNotAllowed]
              /\ pc' = [pc EXCEPT ![r] = "done"]
              /\ hist' = [hist EXCEPT ![r] = read]
              /\ UNCHANGED limiter
          ELSE IF entry.reply = "500" THEN
              /\ res' = [res EXCEPT ![r] = Json(500, MissingEnvMessage, NoDetails)]
              /\ pc' = [pc EXCEPT ![r] = "done"]
              /\ hist' = [hist EXCEPT ![r] = read]
              /\ UNCHANGED limiter
          ELSE IF v = "limited" THEN
              /\ limiter' = Schedule(limiter, r)
              /\ pc' = [pc EXCEPT ![r] = "queued"]
              /\ hist' = [hist EXCEPT ![r] = [read EXCEPT !.scheduled = 1]]
              /\ UNCHANGED res
          ELSE
              /\ pc' = [pc EXCEPT ![r] = "fetching"]
              /\ hist' = [hist EXCEPT ![r] = [read EXCEPT !.fetches = 1,
                                                          !.startedAt = now]]
              /\ UNCHANGED <<res, limiter>>
    /\ UNCHANGED <<env, now, up, notProxy>>

\* the limiter takes the head of its queue and sets the timer that will run it
LimiterRegister ==
    /\ CanRegister(limiter)
    /\ LET r == Head(limiter.queue) IN
       /\ pc' = [pc EXCEPT ![r] = "scheduled"]
       /\ hist' = [hist EXCEPT ![r].execAt = now + Wait(limiter, now)]
    /\ limiter' = Register(limiter, now)
    /\ UNCHANGED <<env, now, arrived, req, up, res, notProxy>>

\* the timer fires: the job runs, that is, fetch(GEMINI_URL, ...) is called
LimiterExecute(r) ==
    /\ pc[r] = "scheduled"
    /\ now >= hist[r].execAt
    /\ pc' = [pc EXCEPT ![r] = "fetching"]
    /\ hist' = [hist EXCEPT ![r].fetches = @ + 1, ![r].startedAt = now]
    /\ UNCHANGED <<env, now, arrived, req, up, res, limiter, notProxy>>

\* fetch resolves with the response's status and headers; the handler goes on
\* to `await externalResp.arrayBuffer()`
UpstreamResponds(r, s, ct, b) ==
    /\ pc[r] = "fetching"
    /\ up' = [up EXCEPT ![r] = [status |-> s, contentType |-> ct, body |-> b,
                                bodyUsed |-> FALSE, delivered |-> FALSE]]
    /\ pc' = [pc EXCEPT ![r] = "reading"]
    /\ limiter' = IF req[r].variant = "limited" THEN Free(limiter) ELSE limiter
    /\ UNCHANGED <<env, now, arrived, req, res, hist, notProxy>>

\* fetch rejects (network failure): the catch block answers 500
UpstreamRejects(r) ==
    /\ pc[r] = "fetching"
    /\ res' = [res EXCEPT ![r] = ServerError(FetchFailedMessage)]
    /\ pc' = [pc EXCEPT ![r] = "done"]
    /\ limiter' = IF req[r].variant = "limited" THEN Free(limiter) ELSE limiter
    /\ UNCHANGED <<env, now, arrived, req, up, hist, notProxy>>

\* the body has arrived: the rest of the handler runs to its return
BodyArrives(r) ==
    /\ pc[r] = "reading"
    /\ up' = [up EXCEPT ![r] = ArrayBuffer(@)]
    /\ res' = [res EXCEPT ![r] = Relay(req[r].variant, ArrayBuffer(up[r]))]
    /\ pc' = [pc EXCEPT ![r] = "done"]
    /\ UNCHANGED <<env, now, arrived, req, hist, limiter, notProxy>>

\* the connection breaks while the body is read: arrayBuffer() rejects
BodyFails(r) ==
    /\ pc[r] = "reading"
    /\ up' = [up EXCEPT ![r].bodyUsed = TRUE]
    /\ res' = [res EXCEPT ![r] = ServerError(TerminatedMessage)]
    /\ pc' = [pc EXCEPT ![r] = "done"]
    /\ UNCHANGED <<env, now, arrived, req, hist, limiter, notProxy>>

\* one second passes. A timer that is due fires before the clock moves on, and
\* the clock stops MaxIdle seconds after the limiter's nextRequest, from where
\* on the limiter no longer depends on it.
Tick ==
    /\ \A r \in Requests : pc[r] = "scheduled" => now < hist[r].execAt
    /\ now < limiter.nextRequest + MaxIdle
    /\ now' = now + 1
    /\ UNCHANGED <<env, arrived, pc, req, up, res, hist, limiter, notProxy>>

\* the steps of the proxy process, for at most n requests to the handler
\* variants V whose upstream responses are drawn from S x CT x B
ProxyStep(n, V, S, CT, B) ==
    \/ \E u, k \in BOOLEAN : arrived < n /\ SetEnv(u, k)
    \/ \E m \in Methods, v \in V : arrived < n /\ Receive(m, v)
    \/ LimiterRegister
    \/ \E r \in Requests : LimiterExecute(r)
    \/ \E r \in Requests, s \in S, ct \in CT, b \in B : UpstreamResponds(r, s, ct, b)
    \/ \E r \in Requests : UpstreamRejects(r)
    \/ \E r \in Requests : BodyArrives(r)
    \/ \E r \in Requests : BodyFails(r)
    \/ Tick

\* few requests, every kind of upstream response: what one request is answered
RelayNext == ProxyStep(NumRelay, Variants, Statuses, ContentTypes, Bodies)
RelaySpec == ProxyInit /\ [][RelayNext]_vars

\* more requests, all to the rate-limited variant, two kinds of upstream
\* response: how the requests share the limiter
ProxyNext == ProxyStep(NumReq, {"limited"}, {200, 429}, {Null}, {<<195>>})
ProxySpec == ProxyInit /\ [][ProxyNext]_vars

\* fairness: what the event loop, the clock and (by the assumption that every
\* upstream call returns) the upstream guarantee
ProxyFairness ==
    /\ WF_vars(LimiterRegister)
    /\ WF_vars(Tick)
    /\ WF_vars(\E r \in Requests : LimiterExecute(r))
    /\ WF_vars(\E r \in Requests :
                  \/ UpstreamRejects(r)
                  \/ \E s \in {200, 429} : UpstreamResponds(r, s, Null, <<195>>))
    /\ WF_vars(\E r \in Requests : BodyArrives(r) \/ BodyFails(r))

ProxyLiveSpec == ProxySpec /\ ProxyFairness

(***************************************************************************)
(* Proxy: properties                                                       *)
(***************************************************************************)
Arrived(r) == r <= arrived
Limited(r) == Arrived(r) /\ req[r].variant = "limited"
\* a POST request that found both environment variables set
Valid(r) == Arrived(r) /\ req[r].method = "POST" /\ hist[r].configured
\* the handler has the upstream's status and its whole body, and has answered
Relayed(r) == pc[r] = "done" /\ up[r].delivered

Abs(x) == IF x >= 0 THEN x ELSE -x

\* C1 (as claimed): in the rate-limited handler, an upstream 429 is answered
\* with status 429, error = the quota-exceeded message and details = the
\* upstream response text.
C1_Quota429Relayed ==
    \A r \in Requests :
        (Limited(r) /\ Valid(r) /\ Relayed(r) /\ up[r].status = 429)
        => /\ res[r].status = 429
           /\ res[r].kind = "json"
           /\ res[r].error = QuotaMessage
           /\ res[r].details = Text(Utf8Decode(up[r].body))

\* C2 (as claimed): in the rate-limited handler, a non-success upstream status
\* other than 429 is answered with that same status and an {error, details}
\* envelope whose details is the upstream response text.
C2_UpstreamErrorRelayed ==
    \A r \in Requests :
        (Limited(r) /\ Valid(r) /\ Relayed(r)
            /\ up[r].status # 429 /\ (up[r].status < 200 \/ up[r].status > 299))
        => /\ res[r].status = up[r].status
           /\ res[r].kind = "json"
           /\ res[r].error # Null
           /\ res[r].details = Text(Utf8Decode(up[r].body))

\* the instants at which two rate-limited requests called fetch are at least
\* minTime apart
StartsSpaced ==
    \A r1, r2 \in Requests :
        (r1 # r2 /\ Limited(r1) /\ Limited(r2)
            /\ hist[r1].startedAt >= 0 /\ hist[r2].startedAt >= 0)
        => Abs(hist[r1].startedAt - hist[r2].startedAt) >= 6

\* C3 (as claimed): no two upstream calls of the rate-limited proxy start less
\* than 6 seconds apart, and at most one upstream call (from the call of fetch
\* until its response body has been read) is in flight at any instant.
C3_OneUpstreamCallInFlight ==
    /\ StartsSpaced
    /\ Cardinality({r \in Requests : Limited(r) /\ pc[r] \in {"fetching", "reading"}}) <= 1

\* C3 (amended): no two upstream calls of the rate-limited proxy start less than
\* 6 seconds apart, and at most one fetch is awaiting its response at any
\* instant; the body of an earlier response may still be being read.
C3_SpacedAndOneFetchPending ==
    /\ StartsSpaced
    /\ Cardinality({r \in Requests : Limited(r) /\ pc[r] = "fetching"}) <= 1

\* C3 witness: two rate-limited calls, the second started exactly 6 seconds
\* after the first and while the first response's body was still being read
C3_Witness ==
    \E r1, r2 \in Requests :
        /\ Limited(r1) /\ Limited(r2)
        /\ pc[r1] = "reading" /\ pc[r2] = "fetching"
        /\ hist[r2].startedAt = hist[r1].startedAt + 6

\* C4: an upstream 200 with body bytes B and content-type T is answered 200 with
\* Content-Type T (application/json when the upstream names none) and body
\* exactly B, by either handler variant.
C4_SuccessPassthrough ==
    \A r \in Requests :
        (Valid(r) /\ Relayed(r) /\ up[r].status = 200)
        => /\ res[r].sent = 1
           /\ res[r].status = 200
           /\ res[r].kind = "bytes"
           /\ res[r].bytes = up[r].body
           /\ (up[r].contentType \notin {Null, ""}
                  => res[r].contentType = up[r].contentType)
           /\ (up[r].contentType \in {Null, ""}
                  => res[r].contentType = "application/json")

\* C4 witness: the rate-limited handler has relayed a 200 image/png response
\* whose body is not valid UTF-8
C4_Witness ==
    \E r \in Requests :
        /\ Limited(r) /\ Valid(r) /\ Relayed(r)
        /\ up[r].status = 200 /\ up[r].contentType = "image/png"
        /\ up[r].body = <<195>> /\ res[r].bytes = <<195>>

\* C7: a request whose method is not POST is answered 405 with Allow: POST by
\* either variant, with no environment variable read and no upstream call.
C7_MethodNotAllowed ==
    \A r \in Requests :
        (Arrived(r) /\ req[r].method # "POST")
        => /\ pc[r] = "done"
           /\ res[r].sent = 1
           /\ res[r].status = 405
           /\ res[r].allow = "POST"
           /\ hist[r].envReads = 0
           /\ hist[r].scheduled = 0
           /\ hist[r].fetches = 0

\* C7 witness: a GET was answered 405 although GEMINI_API_KEY is unset
C7_Witness ==
    \E r \in Requests :
        /\ Arrived(r) /\ req[r].method = "GET"
        /\ ~env.key
        /\ res[r].status = 405 /\ res[r].allow = "POST"
        /\ hist[r].envReads = 0

\* a POST arrives while a variable is unset
MissingEnvArrival ==
    /\ arrived' = arrived + 1
    /\ req'[arrived'].method = "POST"
    /\ (~env.url \/ ~env.key)

\* C8: a POST arriving while GEMINI_API_URL or GEMINI_API_KEY is unset is
\* answered 500 with an error body, makes no upstream call and puts no job in
\* the limiter, whose state (and so the spacing of later requests) is unchanged.
C8_MissingEnv ==
    /\ [](\A r \in Requests :
            (Arrived(r) /\ req[r].method = "POST" /\ ~hist[r].configured)
            => /\ pc[r] = "done"
               /\ res[r].sent = 1
               /\ res[r].status = 500
               /\ res[r].kind = "json"
               /\ res[r].error = MissingEnvMessage
               /\ hist[r].scheduled = 0
               /\ hist[r].fetches = 0)
    /\ [][MissingEnvArrival =>
            /\ limiter' = limiter
            /\ ~hist'[arrived'].configured]_vars

\* C8 witness: a POST was answered 500 for a missing variable while an earlier
\* request's job held the limiter
C8_Witness ==
    \E r \in Requests :
        /\ Arrived(r) /\ req[r].method = "POST" /\ req[r].variant = "limited"
        /\ hist[r].envReads = 2 /\ ~hist[r].configured
        /\ env.url /\ ~env.key
        /\ res[r].status = 500
        /\ limiter.running = 1

\* C9: the rate-limited proxy queues and never refuses: every request handed to
\* the limiter eventually has its own fetch started and eventually gets exactly
\* one response, and none is answered before its fetch was started.
C9_QueuedNotRejected ==
    /\ \A r \in Requests :
        (pc[r] = "queued") ~> (pc[r] = "done" /\ hist[r].fetches = 1 /\ res[r].sent = 1)
    /\ [](\A r \in Requests :
            /\ res[r].sent <= 1
            /\ hist[r].fetches <= 1
            /\ (hist[r].scheduled = 1 /\ res[r].sent = 1) => hist[r].fetches = 1)

\* C9 witness: a request waits in the queue while another request's call runs
C9_Witness ==
    \E r1, r2 \in Requests :
        /\ pc[r1] = "fetching" /\ Limited(r1)
        /\ pc[r2] = "queued"
        /\ limiter.queue = <<r2>>

(***************************************************************************)
(* Generation client: specification and properties                         *)
(***************************************************************************)
ClientInit == ClientStart /\ ProxyStart /\ AppIdle

ClientNext == TryOnReturns \/ RefineReturns

ClientSpec == ClientInit /\ [][ClientNext]_vars

\* content.parts of the first candidate, <<>> when there is no candidate
FirstParts ==
    IF response.candidates # None /\ Len(response.candidates[1]) > 0
    THEN response.candidates[1][1]
    ELSE <<>>

WithImage == {i \in DOMAIN FirstParts : FirstParts[i].inlineData # None}
\* parts that count as text fragments: no inlineData, and a non-empty text
WithTextOnly ==
    {i \in DOMAIN FirstParts :
        /\ FirstParts[i].inlineData = None
        /\ FirstParts[i].text # None
        /\ FirstParts[i].text[1] # ""}

Least(S) == CHOOSE i \in S : \A j \in S : i <= j
Greatest(S) == CHOOSE i \in S : \A j \in S : i >= j

\* C6 (as claimed): imageBase64 is the data of the first part of the first
\* candidate that carries inlineData and text is the first text fragment among
\* its parts; a field is null when there is no part of that kind.
C6_FirstOfEach ==
    returned.by # "none" =>
        /\ returned.imageBase64 =
              IF WithImage = {} THEN Null
              ELSE FirstParts[Least(WithImage)].inlineData[1].data
        /\ returned.text =
              IF WithTextOnly = {} THEN Null
              ELSE FirstParts[Least(WithTextOnly)].text[1]

\* C6 (amended): imageBase64 is the data of the last part of the first
\* candidate that carries inlineData, and text is the last non-empty text of a
\* part that carries no inlineData; a field is null when there is no such part.
C6_LastOfEach ==
    returned.by # "none" =>
        /\ returned.imageBase64 =
              IF WithImage = {} THEN Null
              ELSE FirstParts[Greatest(WithImage)].inlineData[1].data
        /\ returned.text =
              IF WithTextOnly = {} THEN Null
              ELSE FirstParts[Greatest(WithTextOnly)].text[1]

\* C6 witness: refineImage has returned for a first candidate holding two
\* different images and two different texts, the later of each
C6_Witness ==
    /\ returned.by = "refineImage"
    /\ Cardinality(WithImage) = 2 /\ Cardinality(WithTextOnly) = 2
    /\ returned.imageBase64 # FirstParts[Least(WithImage)].inlineData[1].data
    /\ returned.text # FirstParts[Least(WithTextOnly)].text[1]

\* C14: when the first candidate holds exactly one part with inlineData and
\* exactly one text part (a part without inlineData whose text is not empty),
\* in either order, performVirtualTryOn and refineImage return that part's data
\* as imageBase64 and that part's text as text; when the response has no
\* candidates (the list is absent or empty) both returned fields are null.
C14_OneOfEachAndNone ==
    returned.by # "none" =>
        /\ (Cardinality(WithImage) = 1 /\ Cardinality(WithTextOnly) = 1) =>
              /\ returned.imageBase64 =
                    FirstParts[CHOOSE i \in WithImage : TRUE].inlineData[1].data
              /\ returned.text = FirstParts[CHOOSE i \in WithTextOnly : TRUE].text[1]
        /\ (response.candidates = None \/ response.candidates = Some(<<>>)) =>
              /\ returned.imageBase64 = Null
              /\ returned.text = Null

\* C14 witness: refineImage has returned both values for a first candidate
\* whose text part comes before its image part
C14_Witness ==
    /\ returned.by = "refineImage"
    /\ FirstParts = <<Part(None, Some("txtA")), Part(Some([data |-> "imgA"]), None)>>
    /\ returned.imageBase64 = "imgA"
    /\ returned.text = "txtA"

(***************************************************************************)
(* App component: specification and properties                             *)
(***************************************************************************)
UIInit == AppStart /\ apiKey \in BOOLEAN /\ ProxyStart /\ ClientIdle

UINext ==
    \/ \E slot \in Slots, file \in Files : UploadStarts(slot, file)
    \/ \E slot \in Slots, file \in Files : UploadEnds(slot, file)
    \/ \E slot \in Slots, file \in Files : UploadFails(slot, file)
    \/ ClickGenerate
    \/ PersonFileRead
    \/ ClothingFileRead
    \/ \E a \in Awaits : FileReadFails(a)
    \/ \E rsp \in AppResponses : GenerateResolves(rsp)
    \/ GenerateRejects
    \/ \E text \in Prompts : SetRefinePrompt(text)
    \/ ClickRefine
    \/ \E rsp \in AppResponses : RefineResolves(rsp)
    \/ RefineRejects
    \/ Download
    \/ StartOver

UISpec == UIInit /\ [][UINext]_vars

\* fairness: every read and every call settles
UIFairness ==
    /\ WF_vars(PersonFileRead \/ FileReadFails("toBase64Person"))
    /\ WF_vars(ClothingFileRead \/ FileReadFails("toBase64Clothing"))
    /\ WF_vars(GenerateRejects \/ \E rsp \in AppResponses : GenerateResolves(rsp))
    /\ WF_vars(RefineRejects \/ \E rsp \in AppResponses : RefineResolves(rsp))

UILiveSpec == UISpec /\ UIFairness

\* calls of performVirtualTryOn or refineImage that have not settled
CallsInFlight == calls["performVirtualTryOn"] + calls["refineImage"]
\* activations of handleVirtualTryOn that have not finished
GeneratesPending ==
    calls["toBase64Person"] + calls["toBase64Clothing"] + calls["performVirtualTryOn"]

\* C5 (as claimed): from the UI, no two generation-client calls are ever in
\* flight at the same time.
C5_OneCallInFlight == CallsInFlight <= 1

\* a Generate is accepted: a new activation of handleVirtualTryOn is suspended
\* at its first await
GenerateEntered == calls'["toBase64Person"] = calls["toBase64Person"] + 1
\* an activation of handleVirtualTryOn ends: its read or its call has settled
GenerateSettled == GeneratesPending' = GeneratesPending - 1

GenerateErrors ==
    {GenerateError(m) : m \in {ApiKeyMessage, NoImageMessage, UnknownMessage,
                               NetworkMessage}}
PngDataUrls == {<<"data:image/png;base64", d>> : d \in {"imgA", "imgB", "imgC", "imgZ"}}

\* C10: an accepted Generate (both images present, not loading) sets isLoading
\* and clears error and resultImage on entry; when it settles it sets either
\* resultImage (to the returned image's data URL) or error (to a generation
\* failure message), never both, and clears isLoading; so isLoading is
\* eventually false again once the call settles.
C10_GenerateLifecycle ==
    /\ [][GenerateEntered =>
            /\ personImage # None /\ clothingImage # None /\ ~isLoading
            /\ isLoading' /\ error' = Null /\ resultImage' = None]_vars
    /\ [][GenerateSettled =>
            /\ ~isLoading'
            /\ \/ /\ resultImage' \in {Some(u) : u \in PngDataUrls}
                  /\ error' = error
               \/ /\ error' \in GenerateErrors
                  /\ resultImage' = resultImage
            /\ ~(resultImage' # resultImage /\ error' # error)]_vars
    /\ [](isLoading => GeneratesPending = 1)
    /\ (isLoading ~> ~isLoading)

\* C10 witness: a Generate has settled without an image: the failure message is
\* shown, there is no result and nothing is loading
C10_Witness ==
    /\ error = GenerateError(NoImageMessage)
    /\ resultImage = None
    /\ ~isLoading
    /\ GeneratesPending = 0

(***************************************************************************)
(* App component: the handlers invoked directly                            *)
(***************************************************************************)
\* The handlers are called as functions, whatever the buttons' disabled state,
\* one call at a time: each call is awaited before the next is made, and
\* API_KEY may change between two calls. Overlapping calls are UISpec's part.
Awaited == Pending = 0

HandlerInit == AppStart /\ apiKey \in BOOLEAN /\ ProxyStart /\ ClientIdle

HandlerNext ==
    \/ \E slot \in Slots, file \in Files : UploadStarts(slot, file)
    \/ \E slot \in Slots, file \in Files : UploadEnds(slot, file)
    \/ \E slot \in Slots, file \in Files : UploadFails(slot, file)
    \/ Awaited /\ handleVirtualTryOn
    \/ PersonFileRead
    \/ ClothingFileRead
    \/ \E a \in Awaits : FileReadFails(a)
    \/ \E rsp \in AppResponses : GenerateResolves(rsp)
    \/ GenerateRejects
    \/ \E text \in Prompts : SetRefinePrompt(text)
    \/ Awaited /\ handleRefine
    \/ \E rsp \in AppResponses : RefineResolves(rsp)
    \/ RefineRejects
    \/ Awaited /\ handleStartOver
    \/ Awaited /\ SetApiKey

HandlerSpec == HandlerInit /\ [][HandlerNext]_vars

(***************************************************************************)
(* App component: Refine and the handlers' guards                          *)
(***************************************************************************)
\* refineImage resolves with an image and handleRefine runs to its end
RefineSucceeds ==
    \E rsp \in AppResponses :
        /\ Truthy(RefineImageResult(rsp).imageBase64)
        /\ RefineResolves(rsp)
        /\ resultImage' = Some(PngDataUrl(RefineImageResult(rsp).imageBase64))

\* C11 (as claimed): after a Refine whose call resolves with an image,
\* resultImage is the data URL of the returned image, refinePrompt is empty,
\* isRefining is false and error is null.
C11_RefineSuccessState ==
    [][(\E rsp \in AppResponses :
            Truthy(RefineImageResult(rsp).imageBase64) /\ RefineResolves(rsp))
        => /\ RefineSucceeds
           /\ refinePrompt' = <<>>
           /\ ~isRefining'
           /\ error' = Null]_vars

\* C12: handleVirtualTryOn invoked while the person image or the clothing image
\* is absent sets error to the upload-both message, suspends no activation (so
\* no call to performVirtualTryOn follows from it) and leaves isLoading,
\* resultImage and both image states unchanged.
C12_GenerateRefused ==
    [][(handleVirtualTryOn /\ (personImage = None \/ clothingImage = None))
        => /\ error' = UploadBothMessage
           /\ calls' = calls
           /\ UNCHANGED <<isLoading, resultImage, personImage, clothingImage>>]_vars

\* C12 witness: only the person image is present, Generate was refused and
\* nothing is awaited
C12_Witness ==
    /\ error = UploadBothMessage
    /\ personImage # None
    /\ clothingImage = None
    /\ Pending = 0

\* C13: handleRefine invoked while there is no result image, or while the
\* prompt is empty or only whitespace, sets error to the cannot-refine message,
\* makes no call to refineImage and leaves isRefining, resultImage and
\* refinePrompt unchanged.
C13_RefineRefused ==
    [][(handleRefine /\ (resultImage = None \/ Trim(refinePrompt) = <<>>))
        => /\ error' = CannotRefineMessage
           /\ calls' = calls
           /\ UNCHANGED <<isRefining, resultImage, refinePrompt>>]_vars

\* C13 witness: a result is shown, the prompt is a single space and Refine was
\* refused
C13_Witness ==
    /\ error = CannotRefineMessage
    /\ resultImage # None
    /\ refinePrompt = <<" ">>
    /\ calls["refineImage"] = 0

(***************************************************************************)
(* App component: failures of the two operations                           *)
(***************************************************************************)
\* C15: while API_KEY is unset no call of performVirtualTryOn or refineImage
\* reaches its external request: the operation throws first, and the handler
\* that invoked it ends with its API_KEY failure message and its flag cleared.
\* When the external request of either operation rejects, the handler ends
\* with its failure message for that rejection and its flag cleared.
C15_OperationFailures ==
    /\ [][~apiKey =>
            /\ calls'["performVirtualTryOn"] <= calls["performVirtualTryOn"]
            /\ calls'["refineImage"] <= calls["refineImage"]]_vars
    /\ [][(~apiKey /\ ClothingFileRead) =>
            (error' = GenerateError(ApiKeyMessage) /\ ~isLoading')]_vars
    /\ [][(~apiKey /\ handleRefine /\ resultImage # None /\ Trim(refinePrompt) # <<>>) =>
            (error' = RefineError(ApiKeyMessage) /\ ~isRefining')]_vars
    /\ [][GenerateRejects => (error' = GenerateError(NetworkMessage) /\ ~isLoading')]_vars
    /\ [][RefineRejects => (error' = RefineError(NetworkMessage) /\ ~isRefining')]_vars

\* C15 witness: with API_KEY unset a Refine of a shown result has just failed
\* without a call to refineImage being awaited
C15_Witness ==
    /\ ~apiKey
    /\ resultImage # None
    /\ error = RefineError(ApiKeyMessage)
    /\ ~isRefining
    /\ latest = "refine"
    /\ calls["refineImage"] = 0

\* the call resolves with a result that holds no image
GenerateResolvesWithoutImage ==
    \E rsp \in AppResponses :
        ~Truthy(PerformVirtualTryOnResult(rsp).imageBase64) /\ GenerateResolves(rsp)
RefineResolvesWithoutImage ==
    \E rsp \in AppResponses :
        ~Truthy(RefineImageResult(rsp).imageBase64) /\ RefineResolves(rsp)

\* C16 (as claimed): when the call resolves with a result that has no image,
\* Generate ends with its missing-image message and resultImage null, Refine
\* ends with its missing-image message, and resultImage is never a data URL
\* built from a null payload.
C16_MissingImage ==
    /\ [][GenerateResolvesWithoutImage =>
            (error' = GenerateError(NoImageMessage) /\ resultImage' = None)]_vars
    /\ [][RefineResolvesWithoutImage =>
            (error' = RefineError(NoRefinedMessage) /\ resultImage' = resultImage)]_vars
    /\ [](resultImage \notin {Some(PngDataUrl(Null)), Some(PngDataUrl(""))})

(***************************************************************************)
(* App component: Start over and overlapping operations                    *)
(***************************************************************************)
\* the initial values of the seven useState fields, in the order of appState
InitialFields == <<None, None, None, FALSE, FALSE, Null, <<>>>>

\* C17: every Start over, from whatever state it is invoked in, leaves the
\* seven state fields at their initial values: personImage, clothingImage,
\* resultImage and error null, refinePrompt empty, isLoading and isRefining
\* false.
C17_StartOverResets ==
    [][handleStartOver => appState' = InitialFields]_vars

\* C17 witness: Start over was invoked while a Refine call was pending and the
\* seven fields are at their initial values
C17_Witness ==
    /\ latest = "startOver"
    /\ appState = InitialFields
    /\ calls["refineImage"] > 0

\* C18 (as claimed): after Start over, as long as no operation has been
\* triggered since, the state stays reset: no result image, no error message
\* and an empty prompt, whatever call was in flight when Start over was
\* pressed.
C18_ResetStaysReset ==
    latest = "startOver" =>
        /\ resultImage = None
        /\ error = Null
        /\ refinePrompt = <<>>

\* a call of refineImage settles and its handleRefine activation ends
RefineSettled == calls'["refineImage"] = calls["refineImage"] - 1

\* C19 (as claimed): while Generate is the operation triggered most recently,
\* the completion of a Refine call (necessarily an older one) does not change
\* resultImage; and while isLoading is true only the completion of the
\* Generate changes resultImage.
C19_LatestOperationWins ==
    /\ [][(latest = "generate" /\ RefineSettled) => resultImage' = resultImage]_vars
    /\ [][(isLoading /\ resultImage' # resultImage) => GenerateSettled]_vars

RefineErrors ==
    {RefineError(m) : m \in {ApiKeyMessage, NoRefinedMessage, NetworkMessage}}

\* C20: when a Refine call rejects (the request fails, or refineImage throws
\* for a missing API_KEY) or resolves without an image, the step that ends
\* handleRefine leaves resultImage and refinePrompt as they were, sets error to
\* 'Failed to refine image: ' followed by the failure's message, and leaves
\* isRefining false.
C20_RefineFailureFrame ==
    [][(\/ RefineRejects
        \/ RefineResolvesWithoutImage
        \/ (handleRefine /\ ~apiKey /\ resultImage # None /\ Trim(refinePrompt) # <<>>))
       => /\ resultImage' = resultImage
          /\ refinePrompt' = refinePrompt
          /\ error' \in RefineErrors
          /\ ~isRefining']_vars

\* C20 witness: a Refine has ended without an image: the result and the typed
\* instruction are still there, the refine failure is shown and the button is
\* usable again
C20_Witness ==
    /\ error = RefineError(NoRefinedMessage)
    /\ resultImage # None
    /\ refinePrompt = <<"r", " ">>
    /\ ~isRefining
    /\ ~RefineDisabled
    /\ calls["refineImage"] = 0

====
